---- MODULE Spec2Model ----
(***************************************************************************)
(* Model of das_labels: main.py (the label batch: read the table, render   *)
(* one label per row, preview or print it) and convert_logo.py (the        *)
(* one-time logo binarisation).                                            *)
(*                                                                         *)
(* Five specifications share the module:                                   *)
(*   Spec        main(): the batch pipeline, with its failures             *)
(*   LayoutSpec  add_name / add_participant_category / add_t_shirt_size    *)
(*               over the bounding boxes the font can measure              *)
(*   LogoSpec    get_resized_logo over original logo sizes                 *)
(*   GridSpec    preview_grid over image counts                            *)
(*   ConvertSpec convert_logo.main over source pixels                      *)
(***************************************************************************)
EXTENDS Integers, Sequences, FiniteSets, TLC

VARIABLES
    cfg,            \* PREVIEW_MODE, PREVIEW_METHOD, SAVE_PREVIEWS (main.py 13-15)
    pc,             \* position of main()
    csv,            \* the rows of the input file, in file order
    participants,   \* the DataFrame after fillna and sort_values
    heap,           \* image objects: object id -> set of marks drawn on it
    nextId,         \* next fresh object id
    blank_label_template, \* reference (object id) of the background template
    logo,           \* reference of the resized logo
    label_img,      \* reference of the current row's canvas
    i,              \* position of the loop in participants (1-based)
    labels,         \* one entry per make_label_with_logo call: [row, ref]
    preview_images, \* the list main collects in preview mode (references)
    saved,          \* preview files written (slugs)
    shown,          \* rows shown with label_img.show
    gridShown,      \* the references preview_grid displayed
    dirCreated,     \* prep_preview_dir made the folder
    qlr,            \* BrotherQLRaster.data: raster pages accumulated so far
    printer,        \* pages the printer received, in order
    stdout,         \* names reported by "Label printed: ..."
    failure,        \* which step raised, "none" if none
    lay,            \* LayoutSpec state
    lg,             \* LogoSpec state
    grid,           \* GridSpec state
    cv              \* ConvertSpec state

pipeVars == <<cfg, pc, csv, participants, heap, nextId, blank_label_template,
              logo, label_img, i, labels, preview_images, saved, shown,
              gridShown, dirCreated, qlr, printer, stdout, failure>>
others == <<lay, lg, grid, cv>>
vars == <<pipeVars, others>>

(***************************************************************************)
(* Bounds and program constants                                            *)
(***************************************************************************)
MaxRows == 3

LABEL_W == 991
LABEL_H == 413
PADDING == 5
PREVIEW_COLUMNS == 10

Idle == [pc |-> "idle"]

(***************************************************************************)
(* The input table                                                         *)
(***************************************************************************)
\* A missing cell, as pandas reads it
NaN == "nan"

\* The rows an input file is made of (columns Name, T-shirt size, Category)
FileRows ==
    { [Name |-> "Alex",  Size |-> "M",  Category |-> "Volunteer"],
      [Name |-> "Bo Li", Size |-> "XL", Category |-> "Speaker"],
      [Name |-> "Cy",    Size |-> "S",  Category |-> NaN],
      [Name |-> NaN,     Size |-> NaN,  Category |-> NaN] }

Tables == UNION { [1..n -> FileRows] : n \in 0..MaxRows }

\* participants.fillna("", inplace=True)
fillna(v) == IF v = NaN THEN "" ELSE v

\* Code points of the size strings, as Python compares str values
ord(s) ==
    CASE s = ""   -> <<>>
      [] s = "L"  -> <<76>>
      [] s = "M"  -> <<77>>
      [] s = "S"  -> <<83>>
      [] s = "XL" -> <<88, 76>>

RECURSIVE SeqLeq(_, _)
SeqLeq(a, b) ==
    IF a = <<>> THEN TRUE
    ELSE IF b = <<>> THEN FALSE
    ELSE IF Head(a) # Head(b) THEN Head(a) < Head(b)
    ELSE SeqLeq(Tail(a), Tail(b))

StrLeq(s, t) == SeqLeq(ord(s), ord(t))

\* pd.read_csv + fillna: the frame, each row keeping its index label
read_csv(file) ==
    [k \in 1..Len(file) |->
        [idx      |-> k,
         Name     |-> fillna(file[k].Name),
         Size     |-> fillna(file[k].Size),
         Category |-> fillna(file[k].Category)]]

IsSortedBySize(p) ==
    \A a, b \in 1..Len(p) : a < b => StrLeq(p[a].Size, p[b].Size)

\* sort_values("T-shirt size"): default kind is quicksort, which is not stable,
\* so any ordering of the rows that is non-decreasing in the key can result
sort_values(frame) ==
    LET n == Len(frame)
        perms == { f \in [1..n -> 1..n] : \A a, b \in 1..n : a # b => f[a] # f[b] }
    IN { [k \in 1..n |-> frame[f[k]]] : f \in
            { g \in perms : IsSortedBySize([k \in 1..n |-> frame[g[k]]]) } }

\* slugify(name)
slugify(name) ==
    CASE name = "Alex"  -> "alex"
      [] name = "Bo Li" -> "bo-li"
      [] name = "Cy"    -> "cy"
      [] name = ""      -> ""

(***************************************************************************)
(* Images: an object is a set of marks; a reference is an object id        *)
(***************************************************************************)
Mark(kind, row, text) == [kind |-> kind, row |-> row, text |-> text]

\* Image.new(LABEL_COLOUR_MODE, LABEL_SIZE, BACKGROUND_COLOUR)
BlankContent == { Mark("background", 0, "") }
\* the logo as get_resized_logo returns it
LogoContent == { Mark("logo", 0, "") }

\* draw.text(..., text, ...): an empty string draws no glyph
DrawText(content, kind, row, text) ==
    IF text = "" THEN content ELSE content \cup { Mark(kind, row, text) }

\* make_label_with_logo without the copy: the canvas is the template itself
MakeLabelNoCopy(h, n, tmpl, lgo) ==
    [heap |-> [h EXCEPT ![tmpl] = h[tmpl] \cup h[lgo]], ref |-> tmpl, next |-> n]

\* make_label_with_logo: label_img = template.copy(), paste the logo on the copy
make_label_with_logo(h, n, tmpl, lgo) ==
    [heap |-> (n :> (h[tmpl] \cup h[lgo])) @@ h, ref |-> n, next |-> n + 1]

LoopHead(k, n) == IF k <= n THEN "make_label" ELSE "grid"

(***************************************************************************)
(* main(): start-up                                                        *)
(***************************************************************************)
Configs == [PREVIEW_MODE : BOOLEAN, PREVIEW_METHOD : {"pil", "matplotlib"},
            SAVE_PREVIEWS : BOOLEAN]

PipeInit ==
    /\ cfg \in Configs
    /\ csv \in Tables
    /\ pc = "import"
    /\ participants = <<>>
    /\ heap = <<>>
    /\ nextId = 1
    /\ blank_label_template = 0
    /\ logo = 0
    /\ label_img = 0
    /\ i = 1
    /\ labels = <<>>
    /\ preview_images = <<>>
    /\ saved = {}
    /\ shown = <<>>
    /\ gridShown = <<>>
    /\ dirCreated = FALSE
    /\ qlr = <<>>
    /\ printer = <<>>
    /\ stdout = <<>>
    /\ failure = "none"

Abort(why) ==
    /\ pc' = "aborted"
    /\ failure' = why

\* module level: ImageFont.truetype(...) twice, then the backend lookup
LoadFonts ==
    /\ pc = "import"
    /\ pc' = "read_csv"
    /\ UNCHANGED <<others, cfg, csv, participants, heap, nextId, blank_label_template,
                   logo, label_img, i, labels, preview_images, saved, shown,
                   gridShown, dirCreated, qlr, printer, stdout, failure>>

LoadFontsFail ==
    /\ pc = "import"
    /\ Abort("font")
    /\ UNCHANGED <<others, cfg, csv, participants, heap, nextId, blank_label_template,
                   logo, label_img, i, labels, preview_images, saved, shown,
                   gridShown, dirCreated, qlr, printer, stdout>>

\* read_csv, fillna, sort_values
ReadCsv ==
    /\ pc = "read_csv"
    /\ participants' \in sort_values(read_csv(csv))
    /\ pc' = "prep"
    /\ UNCHANGED <<others, cfg, csv, heap, nextId, blank_label_template,
                   logo, label_img, i, labels, preview_images, saved, shown,
                   gridShown, dirCreated, qlr, printer, stdout, failure>>

ReadCsvFail ==
    /\ pc = "read_csv"
    /\ Abort("table")
    /\ UNCHANGED <<others, cfg, csv, participants, heap, nextId, blank_label_template,
                   logo, label_img, i, labels, preview_images, saved, shown,
                   gridShown, dirCreated, qlr, printer, stdout>>

\* qlr = BrotherQLRaster(...); prep_preview_dir(); preview_images = [];
\* blank_label_template = Image.new(...)
Prep ==
    /\ pc = "prep"
    /\ qlr' = <<>>
    /\ dirCreated' = (cfg.PREVIEW_MODE /\ cfg.SAVE_PREVIEWS)
    /\ preview_images' = <<>>
    /\ heap' = (nextId :> BlankContent) @@ heap
    /\ blank_label_template' = nextId
    /\ nextId' = nextId + 1
    /\ pc' = "logo"
    /\ UNCHANGED <<others, cfg, csv, participants, logo, label_img, i, labels, saved,
                   shown, gridShown, printer, stdout, failure>>

\* logo = get_resized_logo()
GetResizedLogo ==
    /\ pc = "logo"
    /\ heap' = (nextId :> LogoContent) @@ heap
    /\ logo' = nextId
    /\ nextId' = nextId + 1
    /\ i' = 1
    /\ pc' = LoopHead(1, Len(participants))
    /\ UNCHANGED <<others, cfg, csv, participants, blank_label_template, label_img,
                   labels, preview_images, saved, shown, gridShown, dirCreated,
                   qlr, printer, stdout, failure>>

\* the logo load failing, the error swallowed and the loop entered
GetResizedLogoFailSwallowed ==
    /\ pc = "logo"
    /\ failure' = "logo"
    /\ heap' = (nextId :> {}) @@ heap
    /\ logo' = nextId
    /\ nextId' = nextId + 1
    /\ i' = 1
    /\ pc' = LoopHead(1, Len(participants))
    /\ UNCHANGED <<others, cfg, csv, participants, blank_label_template, label_img,
                   labels, preview_images, saved, shown, gridShown, dirCreated,
                   qlr, printer, stdout>>

\* Image.open(LOGO_IMAGE_PATH) raising: main() is left
GetResizedLogoFail ==
    /\ pc = "logo"
    /\ Abort("logo")
    /\ UNCHANGED <<others, cfg, csv, participants, heap, nextId, blank_label_template,
                   logo, label_img, i, labels, preview_images, saved, shown,
                   gridShown, dirCreated, qlr, printer, stdout>>

(***************************************************************************)
(* main(): the loop over the rows                                          *)
(***************************************************************************)
Row == participants[i]

\* draw, label_img = make_label_with_logo(blank_label_template, logo)
MakeLabelWithLogo ==
    /\ pc = "make_label"
    /\ LET r == make_label_with_logo(heap, nextId, blank_label_template, logo)
       IN /\ heap' = r.heap
          /\ nextId' = r.next
          /\ label_img' = r.ref
          /\ labels' = Append(labels, [row |-> Row.idx, ref |-> r.ref])
    /\ pc' = "add_name"
    /\ UNCHANGED <<others, cfg, csv, participants, blank_label_template, logo, i,
                   preview_images, saved, shown, gridShown, dirCreated,
                   qlr, printer, stdout, failure>>

\* add_name(draw, participant["Name"])
AddName ==
    /\ pc = "add_name"
    /\ heap' = [heap EXCEPT ![label_img] = DrawText(@, "name", Row.idx, Row.Name)]
    /\ pc' = "add_category"
    /\ UNCHANGED <<others, cfg, csv, participants, nextId, blank_label_template, logo,
                   label_img, i, labels, preview_images, saved, shown,
                   gridShown, dirCreated, qlr, printer, stdout, failure>>

\* add_participant_category(draw, participant["Category"])
AddParticipantCategory ==
    /\ pc = "add_category"
    /\ heap' = [heap EXCEPT ![label_img] =
                    DrawText(@, "category", Row.idx, Row.Category)]
    /\ pc' = "add_size"
    /\ UNCHANGED <<others, cfg, csv, participants, nextId, blank_label_template, logo,
                   label_img, i, labels, preview_images, saved, shown,
                   gridShown, dirCreated, qlr, printer, stdout, failure>>

\* add_t_shirt_size(draw, participant["T-shirt size"])
AddTShirtSize ==
    /\ pc = "add_size"
    /\ heap' = [heap EXCEPT ![label_img] = DrawText(@, "size", Row.idx, Row.Size)]
    /\ pc' = "dispatch"
    /\ UNCHANGED <<others, cfg, csv, participants, nextId, blank_label_template, logo,
                   label_img, i, labels, preview_images, saved, shown,
                   gridShown, dirCreated, qlr, printer, stdout, failure>>

\* any of the four rendering calls of a row raising
RenderFail ==
    /\ pc \in {"make_label", "add_name", "add_category", "add_size"}
    /\ Abort("render")
    /\ UNCHANGED <<others, cfg, csv, participants, heap, nextId, blank_label_template,
                   logo, label_img, i, labels, preview_images, saved, shown,
                   gridShown, dirCreated, qlr, printer, stdout>>

NextRow ==
    /\ i' = i + 1
    /\ pc' = LoopHead(i + 1, Len(participants))

\* preview_image(label_img, name); preview_images.append(label_img)
PreviewImage ==
    /\ pc = "dispatch"
    /\ cfg.PREVIEW_MODE
    /\ saved' = IF cfg.SAVE_PREVIEWS THEN saved \cup {slugify(Row.Name)} ELSE saved
    /\ shown' = IF cfg.PREVIEW_METHOD = "pil" THEN Append(shown, Row.idx) ELSE shown
    /\ preview_images' = Append(preview_images, label_img)
    /\ NextRow
    /\ UNCHANGED <<others, cfg, csv, participants, heap, nextId, blank_label_template,
                   logo, label_img, labels, gridShown, dirCreated, qlr,
                   printer, stdout, failure>>

\* convert(qlr, [label_img], ...): brother_ql's convert adds the commands and
\* the raster page of the image to qlr.data and returns qlr.data (the buffer
\* the commented-out be.write(qlr.data) of print_label would write). main()
\* makes one qlr for the whole run (line 59) and never empties it, so the
\* instructions of a row hold the pages of all rows before it as well.
convert(raster, row) == Append(raster, row)

\* print_label without the mode test: the row is printed in preview mode too
PrintLabelAnyMode ==
    /\ pc = "dispatch"
    /\ LET instructions == convert(qlr, Row.idx)
       IN /\ qlr' = instructions
          /\ printer' = printer \o instructions
    /\ stdout' = Append(stdout, Row.Name)
    /\ NextRow
    /\ UNCHANGED <<others, cfg, csv, participants, heap, nextId, blank_label_template,
                   logo, label_img, labels, preview_images, saved, shown,
                   gridShown, dirCreated, failure>>

\* print_label(label_img, name, qlr): rotate, convert, send, report
PrintLabel ==
    /\ pc = "dispatch"
    /\ ~cfg.PREVIEW_MODE
    /\ LET instructions == convert(qlr, Row.idx)
       IN /\ qlr' = instructions
          /\ printer' = printer \o instructions
    /\ stdout' = Append(stdout, Row.Name)
    /\ NextRow
    /\ UNCHANGED <<others, cfg, csv, participants, heap, nextId, blank_label_template,
                   logo, label_img, labels, preview_images, saved, shown,
                   gridShown, dirCreated, failure>>

\* rotate or convert raising: nothing is sent
PrintLabelConvertFail ==
    /\ pc = "dispatch"
    /\ ~cfg.PREVIEW_MODE
    /\ Abort("convert")
    /\ UNCHANGED <<others, cfg, csv, participants, heap, nextId, blank_label_template,
                   logo, label_img, i, labels, preview_images, saved, shown,
                   gridShown, dirCreated, qlr, printer, stdout>>

\* send raising: a prefix of the instructions may have reached the printer
PrintLabelSendFail ==
    /\ pc = "dispatch"
    /\ ~cfg.PREVIEW_MODE
    /\ LET instructions == convert(qlr, Row.idx)
       IN /\ qlr' = instructions
          /\ \E m \in 0..Len(instructions) :
                printer' = printer \o SubSeq(instructions, 1, m)
    /\ Abort("send")
    /\ UNCHANGED <<others, cfg, csv, participants, heap, nextId, blank_label_template,
                   logo, label_img, i, labels, preview_images, saved, shown,
                   gridShown, dirCreated, stdout>>

\* preview_grid(participants, preview_images), as main() calls it
PreviewGrid ==
    /\ pc = "grid"
    /\ gridShown' = IF cfg.PREVIEW_MODE /\ cfg.PREVIEW_METHOD = "matplotlib"
                       /\ preview_images # <<>>
                    THEN preview_images ELSE gridShown
    /\ pc' = "done"
    /\ UNCHANGED <<others, cfg, csv, participants, heap, nextId, blank_label_template,
                   logo, label_img, i, labels, preview_images, saved, shown,
                   dirCreated, qlr, printer, stdout, failure>>

OthersIdle == lay = Idle /\ lg = Idle /\ grid = Idle /\ cv = Idle

Init == PipeInit /\ OthersIdle

Next ==
    \/ LoadFonts
    \/ LoadFontsFail
    \/ ReadCsv
    \/ ReadCsvFail
    \/ Prep
    \/ GetResizedLogo
    \/ GetResizedLogoFail
    \/ MakeLabelWithLogo
    \/ AddName
    \/ AddParticipantCategory
    \/ AddTShirtSize
    \/ RenderFail
    \/ PreviewImage
    \/ PrintLabel
    \/ PrintLabelConvertFail
    \/ PrintLabelSendFail
    \/ PreviewGrid

Spec == Init /\ [][Next]_vars

(***************************************************************************)
(* Properties of the pipeline (checked under Spec)                         *)
(***************************************************************************)
Count(seq, x) == Cardinality({ k \in 1..Len(seq) : seq[k] = x })

PrintFailures == {"render", "convert", "send"}
LoadFailures == {"font", "table", "logo"}

\* C1: in print mode, when row k (position i of the processing order) fails in
\* rendering, conversion or transmission, the batch halts there: every row
\* before k has been sent to the printer exactly once, row k is not reported
\* as printed, no row after k is rendered or sent, and nothing is retried.
C1_BatchHaltsAtFirstFailure ==
    (~cfg.PREVIEW_MODE /\ failure \in PrintFailures) =>
        /\ pc = "aborted"
        /\ \A j \in 1..(i - 1) : Count(printer, participants[j].idx) = 1
        /\ Len(stdout) = i - 1
        /\ Len(labels) <= i
        /\ \A j \in (i + 1)..Len(participants) :
                Count(printer, participants[j].idx) = 0
        /\ Count(printer, participants[i].idx) <= 1

\* C2: the shared template and the shared logo are never changed, every
\* canvas starts as template plus logo, and the canvas of a row carries no
\* mark drawn for another row.
C2_CanvasStartsPristine ==
    /\ blank_label_template # 0 => heap[blank_label_template] = BlankContent
    /\ (logo # 0 /\ failure = "none") => heap[logo] = LogoContent
    /\ pc = "add_name" => heap[label_img] = BlankContent \cup LogoContent
    /\ \A k \in 1..Len(labels) :
          \A m \in heap[labels[k].ref] : m.row \in {0, labels[k].row}
    /\ \A a, b \in 1..Len(labels) : a # b => labels[a].ref # labels[b].ref

C2_Witness ==
    /\ Len(labels) >= 2
    /\ pc = "dispatch"
    /\ \E m \in heap[labels[1].ref] : m.kind = "name"
    /\ \E m \in heap[labels[2].ref] : m.kind = "name"

\* C8: when the fonts, the table or the logo fail to load, the run has
\* stopped with no row processed: no canvas, no preview shown, saved or
\* collected, nothing sent to the printer.
C8_LoadFailureBeforeAnyRow ==
    failure \in LoadFailures =>
        /\ pc = "aborted"
        /\ labels = <<>>
        /\ preview_images = <<>>
        /\ saved = {}
        /\ shown = <<>>
        /\ gridShown = <<>>
        /\ printer = <<>>
        /\ stdout = <<>>

C8_Witness ==
    /\ failure = "logo"
    /\ pc = "aborted"
    /\ Len(participants) >= 2

DispatchCount(row) ==
    Count(printer, row)
    + Cardinality({ k \in 1..Len(preview_images) :
                      \E l \in 1..Len(labels) :
                         labels[l].ref = preview_images[k] /\ labels[l].row = row })

\* C9: in a run that completes without failure the rows were taken in
\* non-decreasing order of T-shirt size, each row got exactly one label image,
\* and each row was dispatched (previewed or printed) exactly once.
C9_OneLabelPerRowInSizeOrder ==
    (pc = "done" /\ failure = "none") =>
        /\ IsSortedBySize(participants)
        /\ Len(labels) = Len(participants)
        /\ \A k \in 1..Len(labels) : labels[k].row = participants[k].idx
        /\ \A k \in 1..Len(participants) : DispatchCount(participants[k].idx) = 1

AtRowBoundary == pc \in {"make_label", "grid", "done"} /\ logo # 0

\* C10: a run is either a preview run or a print run: in preview mode nothing
\* reaches the printer and every finished row is collected; in print mode
\* nothing is previewed, saved or collected, every finished row was sent, and
\* preview_grid displays nothing.
C10_ModesExclusive ==
    /\ cfg.PREVIEW_MODE =>
          /\ printer = <<>> /\ stdout = <<>> /\ qlr = <<>>
          /\ AtRowBoundary => Len(preview_images) = i - 1
    /\ ~cfg.PREVIEW_MODE =>
          /\ preview_images = <<>> /\ saved = {} /\ shown = <<>>
          /\ gridShown = <<>> /\ ~dirCreated
          /\ AtRowBoundary =>
                /\ Len(stdout) = i - 1
                /\ \A j \in 1..(i - 1) : Count(printer, participants[j].idx) >= 1

C10_Witness ==
    /\ pc = "done"
    /\ ~cfg.PREVIEW_MODE
    /\ Len(stdout) >= 2

(***************************************************************************)
(* LayoutSpec: where the three texts of a label are drawn                  *)
(***************************************************************************)
NAME_VERTICAL_POSITION == 200
MaxSmallWidth == 2
MaxOverflow == 2

\* Measured extents: short texts, and texts about as wide as the canvas or wider
TextWidths == (1..MaxSmallWidth) \cup ((LABEL_W - 1)..(LABEL_W + MaxOverflow))

\* draw.textbbox((0, 0), text, font=font): (left, top, right, bottom) of the
\* text when drawn at the origin. The left and top need not be 0: they carry
\* the first glyph's bearing and the gap above the glyphs.
textbbox(text) ==
    IF text = "" THEN { <<0, 0, 0, 0>> }
    ELSE { <<l, t, l + w, t + 38>> : l \in {-1, 0}, t \in {0, 14}, w \in TextWidths }

\* _, DESCENT = SMALL_FONT.getmetrics()
Descents == {12, 13}

get_textsize(bbox) == <<bbox[3] - bbox[1], bbox[4] - bbox[2]>>

\* draw.text((x, y), text, ...): the text occupies its bounding box moved to (x, y)
DrawnAt(x, y, text, bbox) ==
    [text |-> text, x |-> x, y |-> y, width |-> get_textsize(bbox)[1],
     left |-> x + bbox[1], top |-> y + bbox[2],
     right |-> x + bbox[3], bottom |-> y + bbox[4]]

\* name_x with the halving applied to the canvas width only
name_x_HalfCanvasOnly(width) == LABEL_W \div 2 - width

\* name_x = (LABEL_SIZE[0] - width) // 2
name_x(width) == (LABEL_W - width) \div 2

add_name(text, bbox) ==
    DrawnAt(name_x(get_textsize(bbox)[1]), NAME_VERTICAL_POSITION, text, bbox)

add_participant_category(text, bbox, descent) ==
    DrawnAt(PADDING, LABEL_H - get_textsize(bbox)[2] - (PADDING + descent), text, bbox)

add_t_shirt_size(text, bbox, descent) ==
    DrawnAt(LABEL_W - get_textsize(bbox)[1] - PADDING,
            LABEL_H - get_textsize(bbox)[2] - (PADDING + descent), text, bbox)

NotDrawn == <<>>

\* main() is not running
PipeIdle ==
    /\ cfg = Idle /\ pc = "idle" /\ csv = <<>> /\ participants = <<>>
    /\ heap = <<>> /\ nextId = 1 /\ blank_label_template = 0 /\ logo = 0
    /\ label_img = 0 /\ i = 1 /\ labels = <<>> /\ preview_images = <<>>
    /\ saved = {} /\ shown = <<>> /\ gridShown = <<>> /\ dirCreated = FALSE
    /\ qlr = <<>> /\ printer = <<>> /\ stdout = <<>> /\ failure = "none"

LayInit ==
    /\ lay \in [pc : {"add_name"}, descent : Descents, name : {NotDrawn},
                category : {NotDrawn}, size : {NotDrawn}]
    /\ lg = Idle /\ grid = Idle /\ cv = Idle
    /\ PipeIdle

LayAddName ==
    /\ lay.pc = "add_name"
    /\ \E text \in {"", "Alex"} : \E bbox \in textbbox(text) :
          lay' = [lay EXCEPT !.pc = "add_category", !.name = add_name(text, bbox)]
    /\ UNCHANGED <<pipeVars, lg, grid, cv>>

LayAddParticipantCategory ==
    /\ lay.pc = "add_category"
    /\ \E text \in {"", "Volunteer"} : \E bbox \in textbbox(text) :
          lay' = [lay EXCEPT !.pc = "add_size",
                     !.category = add_participant_category(text, bbox, lay.descent)]
    /\ UNCHANGED <<pipeVars, lg, grid, cv>>

LayAddTShirtSize ==
    /\ lay.pc = "add_size"
    /\ \E text \in {"", "M"} : \E bbox \in textbbox(text) :
          lay' = [lay EXCEPT !.pc = "drawn",
                     !.size = add_t_shirt_size(text, bbox, lay.descent)]
    /\ UNCHANGED <<pipeVars, lg, grid, cv>>

LayNext ==
    \/ LayAddName
    \/ LayAddParticipantCategory
    \/ LayAddTShirtSize

LayoutSpec == LayInit /\ [][LayNext]_vars

\* C3: a non-empty name is centred: name_x + width/2 is less than one pixel
\* from canvas_width/2 (stated on doubled values), also when the text is
\* wider than the canvas.
C3_NameCentred ==
    (lay.pc # "idle" /\ lay.name # NotDrawn /\ lay.name.text # "") =>
        /\ 2 * lay.name.x + lay.name.width - LABEL_W < 2
        /\ LABEL_W - (2 * lay.name.x + lay.name.width) < 2
        /\ lay.name.y = NAME_VERTICAL_POSITION

C3_Witness ==
    /\ lay.pc # "idle"
    /\ lay.name # NotDrawn
    /\ lay.name.text # ""
    /\ lay.name.width > LABEL_W
    /\ lay.name.x < 0

\* C4: on a finished label the left edge of the category text is PADDING and
\* the right edge of the size text is canvas_width - PADDING, whatever bounding
\* box the font measured.
C4_TextEdgesAtPadding ==
    lay.pc = "drawn" =>
        /\ lay.category.left = PADDING
        /\ lay.size.right = LABEL_W - PADDING

(***************************************************************************)
(* LogoSpec: get_resized_logo                                              *)
(***************************************************************************)
MaxSmallLogo == 3
LogoMargin == 3

\* logo_print_size
logo_print_size == <<LABEL_W - 2 * PADDING, LABEL_H - 2 * PADDING>>

\* Sizes of the file at LOGO_IMAGE_PATH: tiny, around the box, far larger
LogoExtents(box) ==
    (1..MaxSmallLogo) \cup ((box - LogoMargin)..(box + LogoMargin))
        \cup {2 * box + 1, 4 * box}

Abs(x) == IF x < 0 THEN -x ELSE x
Floor(a, b) == a \div b
Ceil(a, b) == -((-a) \div b)
Max(a, b) == IF a >= b THEN a ELSE b
Min(a, b) == IF a <= b THEN a ELSE b

\* Image.thumbnail's round_aspect for the width: of floor and ceil of
\* y * aspect, the one whose n / y is nearer the aspect (floor on a tie), at least 1
round_aspect_x(w, h, y) ==
    LET f == Floor(y * w, h)
        c == Ceil(y * w, h)
    IN Max(IF Abs(w * y - c * h) < Abs(w * y - f * h) THEN c ELSE f, 1)

\* round_aspect for the height: key is 0 for n = 0, else |aspect - x / n|
round_aspect_y(w, h, x) ==
    LET f == Floor(x * h, w)
        c == Ceil(x * h, w)
        pick == IF f = 0 THEN f
                ELSE IF Abs(w * c - x * h) * f < Abs(w * f - x * h) * c THEN c ELSE f
    IN Max(pick, 1)

\* the logo stretched to the whole box, as Image.resize would
resize_to_box(size, box) == box

\* Image.thumbnail(size): unchanged when the image fits, else the largest size
\* of the same aspect ratio that fits the box
thumbnail(size, box) ==
    LET w == size[1]
        h == size[2]
        x == box[1]
        y == box[2]
    IN IF x >= w /\ y >= h THEN size
       ELSE IF x * h >= w * y THEN <<round_aspect_x(w, h, y), y>>
       ELSE <<x, round_aspect_y(w, h, x)>>

LogoInit ==
    /\ lg \in [pc : {"open"},
               original : LogoExtents(logo_print_size[1]) \X LogoExtents(logo_print_size[2]),
               size : {<<0, 0>>}]
    /\ lay = Idle /\ grid = Idle /\ cv = Idle
    /\ PipeIdle

\* get_resized_logo(): open, convert to RGBA, thumbnail in place
LogoGetResized ==
    /\ lg.pc = "open"
    /\ lg' = [lg EXCEPT !.pc = "resized", !.size = thumbnail(lg.original, logo_print_size)]
    /\ UNCHANGED <<pipeVars, lay, grid, cv>>

LogoNext == LogoGetResized

LogoSpec == LogoInit /\ [][LogoNext]_vars

\* C5: the resized logo is no larger than the original in either dimension,
\* fits the box canvas - 2*PADDING, and pasted at (PADDING, PADDING) stays
\* inside the canvas.
C5_LogoFitsCanvas ==
    lg.pc = "resized" =>
        /\ lg.size[1] <= lg.original[1]
        /\ lg.size[2] <= lg.original[2]
        /\ lg.size[1] >= 1 /\ lg.size[2] >= 1
        /\ lg.size[1] <= LABEL_W - 2 * PADDING
        /\ lg.size[2] <= LABEL_H - 2 * PADDING
        /\ PADDING + lg.size[1] <= LABEL_W
        /\ PADDING + lg.size[2] <= LABEL_H

C5_Witness ==
    /\ lg.pc = "resized"
    /\ lg.original[1] > LABEL_W - 2 * PADDING
    /\ lg.original[2] > LABEL_H - 2 * PADDING
    /\ lg.size # lg.original

(***************************************************************************)
(* GridSpec: preview_grid                                                  *)
(***************************************************************************)
MaxImages == 21

\* rows by floor division
grid_rows_floor(num_images, cols) == num_images \div cols

\* rows = (num_images + cols - 1) // cols
grid_rows(num_images, cols) == (num_images + cols - 1) \div cols

\* cols = min(PREVIEW_COLUMNS, num_images)
grid_cols(num_images) == Min(PREVIEW_COLUMNS, num_images)

GridInit ==
    /\ grid \in [pc : {"call"}, PREVIEW_MODE : BOOLEAN,
                 PREVIEW_METHOD : {"pil", "matplotlib"},
                 num_images : 0..MaxImages, cols : {0}, rows : {0},
                 k : {0}, subplots : {{}}]
    /\ lay = Idle /\ lg = Idle /\ cv = Idle
    /\ PipeIdle

GridGuard ==
    grid.PREVIEW_MODE /\ grid.PREVIEW_METHOD = "matplotlib" /\ grid.num_images > 0

\* the guard of preview_grid is false: nothing is displayed
GridSkip ==
    /\ grid.pc = "call"
    /\ ~GridGuard
    /\ grid' = [grid EXCEPT !.pc = "returned"]
    /\ UNCHANGED <<pipeVars, lay, lg, cv>>

\* cols, rows, plt.figure
GridFigure ==
    /\ grid.pc = "call"
    /\ GridGuard
    /\ grid' = [grid EXCEPT !.pc = "subplots",
                   !.cols = grid_cols(grid.num_images),
                   !.rows = grid_rows(grid.num_images, grid_cols(grid.num_images))]
    /\ UNCHANGED <<pipeVars, lay, lg, cv>>

\* one turn of the loop: plt.subplot(rows, cols, i + 1), imshow, axis
GridSubplot ==
    /\ grid.pc = "subplots"
    /\ grid.k < grid.num_images
    /\ grid' = [grid EXCEPT !.subplots = @ \cup {grid.k + 1}, !.k = @ + 1]
    /\ UNCHANGED <<pipeVars, lay, lg, cv>>

\* plt.tight_layout(); plt.show()
GridShow ==
    /\ grid.pc = "subplots"
    /\ grid.k = grid.num_images
    /\ grid' = [grid EXCEPT !.pc = "shown"]
    /\ UNCHANGED <<pipeVars, lay, lg, cv>>

GridNext ==
    \/ GridSkip
    \/ GridFigure
    \/ GridSubplot
    \/ GridShow

GridSpec == GridInit /\ [][GridNext]_vars

\* the least r with r * d >= n
Ceiling(n, d) == CHOOSE r \in 0..n : r * d >= n /\ (r - 1) * d < n

InGrid == grid.pc \in {"subplots", "shown"}

\* C6 as stated: the grid has PREVIEW_COLUMNS columns and
\* ceil(n / PREVIEW_COLUMNS) rows, and every subplot index is in 1..rows*cols.
C6_FixedColumnCount ==
    InGrid =>
        /\ grid.cols = PREVIEW_COLUMNS
        /\ grid.rows = Ceiling(grid.num_images, PREVIEW_COLUMNS)
        /\ \A s \in grid.subplots : 1 <= s /\ s <= grid.rows * grid.cols

\* C6 amended: the grid has min(PREVIEW_COLUMNS, n) columns and
\* ceil(n / PREVIEW_COLUMNS) rows, every subplot index is in 1..rows*cols, and
\* the shown grid holds the indices 1..n.
C6_ColumnsCappedByCount ==
    InGrid =>
        /\ grid.cols = IF grid.num_images < PREVIEW_COLUMNS
                       THEN grid.num_images ELSE PREVIEW_COLUMNS
        /\ grid.rows = Ceiling(grid.num_images, PREVIEW_COLUMNS)
        /\ \A s \in grid.subplots : 1 <= s /\ s <= grid.rows * grid.cols
        /\ grid.pc = "shown" => grid.subplots = 1..grid.num_images

C6_Witness ==
    /\ grid.pc = "shown"
    /\ grid.num_images > 2 * PREVIEW_COLUMNS
    /\ grid.rows = 3
    /\ Cardinality(grid.subplots) = grid.num_images

(***************************************************************************)
(* ConvertSpec: convert_logo.main                                          *)
(***************************************************************************)
MaxPixels == 2

BLACK == <<0, 0, 0>>
WHITE == <<255, 255, 255>>

\* RGBA pixels of the original file: channel values at the ends of the range
\* and just below the top, alpha opaque or half transparent
SourcePixels == { <<r, g, b, a>> : r \in {0, 254, 255}, g \in {0, 254, 255},
                                   b \in {0, 254, 255}, a \in {128, 255} }

SourceImages == UNION { [1..n -> SourcePixels] : n \in 1..MaxPixels }

\* Image.convert("L") of an RGB pixel: ITU-R 601-2 luma, 16-bit fixed point
luma(px) == (px[1] * 19595 + px[2] * 38470 + px[3] * 7471 + 32768) \div 65536

\* the point() step left out: the grey value goes through
point_lut_identity(p) == p

\* point(lambda p: 0 if p < 255 else 255, mode='1')
point_lut(p) == IF p < 255 THEN 0 ELSE 255

\* a mode "1" pixel pasted into an RGB image
to_rgb(v) == <<v, v, v>>

\* Pillow's 8-bit blend of one channel under a mask value
blend8(mask, below, above) ==
    LET tmp == below * (255 - mask) + above * mask + 128
    IN ((tmp \div 256) + tmp) \div 256

\* final_logo.paste(bw_logo, mask=alpha) at one pixel
paste_pixel(below, above, mask) ==
    [c \in 1..3 |-> blend8(mask, below[c], above[c])]

CvInit ==
    /\ cv \in [pc : {"open"}, logo : SourceImages, grey : {<<>>}, bw_logo : {<<>>},
               final_logo : {<<>>}, file : {<<>>}]
    /\ lay = Idle /\ lg = Idle /\ grid = Idle
    /\ PipeIdle

\* split, merge the colour bands, convert("L")
CvGreyscale ==
    /\ cv.pc = "open"
    /\ cv' = [cv EXCEPT !.pc = "grey",
                 !.grey = [k \in 1..Len(cv.logo) |-> luma(cv.logo[k])]]
    /\ UNCHANGED <<pipeVars, lay, lg, grid>>

\* point(...)
CvBinarise ==
    /\ cv.pc = "grey"
    /\ cv' = [cv EXCEPT !.pc = "bw",
                 !.bw_logo = [k \in 1..Len(cv.grey) |-> point_lut(cv.grey[k])]]
    /\ UNCHANGED <<pipeVars, lay, lg, grid>>

\* Image.new("RGB", size, "white"), then paste with the alpha band as mask
CvComposite ==
    /\ cv.pc = "bw"
    /\ cv' = [cv EXCEPT !.pc = "pasted",
                 !.final_logo = [k \in 1..Len(cv.bw_logo) |->
                     paste_pixel(WHITE, to_rgb(cv.bw_logo[k]), cv.logo[k][4])]]
    /\ UNCHANGED <<pipeVars, lay, lg, grid>>

\* final_logo.save("logo_bw.png")
CvSave ==
    /\ cv.pc = "pasted"
    /\ cv' = [cv EXCEPT !.pc = "saved", !.file = cv.final_logo]
    /\ UNCHANGED <<pipeVars, lay, lg, grid>>

CvNext ==
    \/ CvGreyscale
    \/ CvBinarise
    \/ CvComposite
    \/ CvSave

ConvertSpec == CvInit /\ [][CvNext]_vars

Opaque(img) == \A k \in 1..Len(img) : img[k][4] = 255

\* C7: for a fully opaque source image the saved image has only pure black
\* and pure white pixels, one per source pixel.
C7_OpaqueGivesBlackAndWhite ==
    (cv.pc = "saved" /\ Opaque(cv.logo)) =>
        /\ Len(cv.file) = Len(cv.logo)
        /\ \A k \in 1..Len(cv.file) : cv.file[k] \in {BLACK, WHITE}

\* a magenta-on-white source
C7_Witness ==
    /\ cv.pc = "saved"
    /\ Opaque(cv.logo)
    /\ \E k \in 1..Len(cv.logo) : cv.logo[k] = <<255, 0, 255, 255>> /\ cv.file[k] = BLACK
    /\ \E k \in 1..Len(cv.logo) : cv.logo[k] = <<255, 255, 255, 255>> /\ cv.file[k] = WHITE

====
